---- MODULE Spec2Model ----
(***************************************************************************)
(* The JSON diff agent: a Flask process with a POST /diff handler and a    *)
(* GET /health handler, over a blob store (one GCS bucket) and a text      *)
(* generation model.  The repository holds three versions of the handler:  *)
(* agent.py, solutions/agent_clean_up.py and                               *)
(* solutions/agent_external_prompt.py; `variant` says which one the        *)
(* process runs.  A request is a sequence of steps, one per external call, *)
(* so that requests served by different workers interleave.                *)
(***************************************************************************)
EXTENDS Integers, Sequences, FiniteSets, TLC

\* The number of POST /diff requests the process accepts in one behaviour.
MaxRequests == 2

Workers == {1, 2}
Variants == {"agent", "clean_up", "external_prompt"}

None == "None"
PROMPT_FILE_PATH == "external_prompt.txt"
FILE_1_NAME == "file1.json"
FILE_2_NAME == "file2.json"
\* The object names a request or the bucket may hold.
ObjectNames == {FILE_1_NAME, FILE_2_NAME, "file3.json", PROMPT_FILE_PATH}
\* data.get('file1'): None (key absent or null), "" or a name.
FieldValues == {None, ""} \cup ObjectNames
NoBody == [file1 |-> "<no json>", file2 |-> "<no json>"]
Bodies == {NoBody} \cup [file1 : FieldValues, file2 : FieldValues]
\* The bodies whose two names are non-empty.
NamedBodies == [file1 : ObjectNames \ {PROMPT_FILE_PATH}, file2 : ObjectNames \ {PROMPT_FILE_PATH}]

\* Python truthiness of a field value: `not file1_name`.
Truthy(v) == v # None /\ v # ""

\* ------------------------------------------------------------------ text

Min(S) == CHOOSE x \in S : \A y \in S : x <= y
Max(S) == CHOOSE x \in S : \A y \in S : x >= y

IsWs(c) == c \in {" ", "\n"}

\* str.strip()
Strip(t) ==
  LET idx == {i \in 1..Len(t) : ~IsWs(t[i])}
  IN  IF idx = {} THEN <<>> ELSE SubSeq(t, Min(idx), Max(idx))

\* str.startswith(p)
StartsWith(t, p) == Len(t) >= Len(p) /\ SubSeq(t, 1, Len(p)) = p

\* One element of a text is one character; Tick is the backquote character.
Tick == "<backquote>"
Fence == <<Tick, Tick, Tick, "j", "s", "o", "n">>

\* get_gemini_diff, the clean-up of response.text: strip, and when the text
\* starts with the json fence, raw_text[7:-3].strip().
CleanResponse(text) ==
  LET raw_text == Strip(text)
  IN  IF StartsWith(raw_text, Fence)
      THEN Strip(SubSeq(raw_text, 8, Len(raw_text) - 3))
      ELSE raw_text

\* json.loads on the texts of the model's alphabet: a JSON value is a number
\* (digits) or an empty object, with whitespace allowed around it and inside
\* the braces.
IsDigit(c) == c \in {"1", "2"}
JsonValid(t) ==
  LET s == Strip(t)
  IN  \/ Len(s) >= 1 /\ \A i \in 1..Len(s) : IsDigit(s[i])
      \/ /\ Len(s) >= 2
         /\ s[1] = "{"
         /\ s[Len(s)] = "}"
         /\ \A i \in 2..(Len(s) - 1) : IsWs(s[i])
\* The value json.loads returns, as jsonify writes it again: no whitespace.
JsonLoads(t) == SelectSeq(t, LAMBDA c : ~IsWs(c))

\* generate_content: it throws, or it returns a response with this text.
Throws == <<"throw">>
Responses ==
  { <<"{", "}">>,
    <<" ", "{", " ", "}", "\n">>,
    <<Tick, Tick, Tick, "j", "s", "o", "n", "\n", "1", "\n", Tick, Tick, Tick>>,
    <<Tick, Tick, Tick, "j", "s", "o", "n", "\n", "{", "}">>,
    <<"n", "o">> }
ModelOutcomes == {Throws} \cup Responses

\* ------------------------------------------------------------- responses

NoResp == [status |-> 0, key |-> "", type |-> "", value |-> <<>>]
ErrorBody(code, msg) == [status |-> code, key |-> "error", type |-> "str", value |-> msg]
InternalError == ErrorBody(500, <<"An internal server error occurred.">>)
MissingField == ErrorBody(400, <<"Missing 'file1' or 'file2' in request">>)
NotFoundBody(name) == ErrorBody(404, <<"File not found in bucket: ", name>>)
PromptNotFound == ErrorBody(500, <<"Configuration error: Prompt template not found.">>)
PromptNotLoaded == ErrorBody(500, <<"Configuration error: Could not load prompt.">>)
HealthOk == [status |-> 200, key |-> "status", type |-> "str", value |-> <<"ok">>]
HealthOkGemini == [status |-> 200, key |-> "status", type |-> "str", value |-> <<"ok", "gemini", "ok">>]
HealthFailed == [status |-> 503, key |-> "status", type |-> "str", value |-> <<"error", "gemini", "failed">>]

\* The content of an object of the bucket; the program never writes one.
NoContent == <<>>
Content(name) == <<"<content of ", name, ">">>

\* A prompt that leaves the second content out.
PromptOmitsSecond(c1, c2) == <<"... File 1: ">> \o c1 \o <<" File 2: ">> \o <<" Respond with only the differences ...">>

\* The prompt of get_gemini_diff: the fixed text around the two contents.
Prompt(c1, c2) == <<"... File 1: ">> \o c1 \o <<" File 2: ">> \o c2 \o <<" Respond with only the differences ...">>

VARIABLES
  variant,          \* which handler the process runs
  storage_client,   \* "ok" or None
  gemini_model,     \* "ok" or None
  store,            \* the names of the objects in the bucket
  store0,           \* the bucket when the process started
  served,           \* requests accepted so far
  pc,               \* each worker's position in handle_diff_request
  body,             \* the request's JSON body
  file1_name, file2_name,
  file1_content, file2_content,
  determined,       \* the value the try/except part of the handler returns
  response,         \* the response the caller receives
  calls,            \* each request's calls of the blob store and of the model
  raised,           \* the exceptions raised while serving the request
  prompt,           \* the prompt the request sent to the model
  modelOut,         \* what generate_content did for the request
  diff_result_text, \* the text get_gemini_diff returned for the request
  health,           \* the last response of GET /health
  healthCalls,      \* the calls GET /health made
  healthProbe,      \* what the probe of GET /health did: "threw", "returned" or ""
  null_deref        \* a method was called on an unset client handle

vars == <<variant, storage_client, gemini_model, store, store0, served, pc, body,
          file1_name, file2_name, file1_content, file2_content, determined,
          response, calls, raised, prompt, modelOut, diff_result_text, health,
          healthCalls, healthProbe,
          null_deref>>

\* What a step of one request leaves alone.
process == <<variant, storage_client, gemini_model, store0, served, health,
             healthCalls, healthProbe, null_deref>>

Call(op, name) == [op |-> op, name |-> name]

\* --------------------------------------------------------------- Init

\* Module import: the clients are constructed, or both handles are None.
Bootstrap(ok) ==
  /\ storage_client = (IF ok THEN "ok" ELSE None)
  /\ gemini_model = (IF ok THEN "ok" ELSE None)

InitRequests ==
  /\ served = 0
  /\ pc = [w \in Workers |-> "idle"]
  /\ body = [w \in Workers |-> NoBody]
  /\ file1_name = [w \in Workers |-> None]
  /\ file2_name = [w \in Workers |-> None]
  /\ file1_content = [w \in Workers |-> NoContent]
  /\ file2_content = [w \in Workers |-> NoContent]
  /\ determined = [w \in Workers |-> NoResp]
  /\ response = [w \in Workers |-> NoResp]
  /\ calls = [w \in Workers |-> <<>>]
  /\ raised = [w \in Workers |-> <<>>]
  /\ prompt = [w \in Workers |-> <<>>]
  /\ modelOut = [w \in Workers |-> <<>>]
  /\ diff_result_text = [w \in Workers |-> <<>>]
  /\ health = NoResp
  /\ healthCalls = <<>>
  /\ healthProbe = ""
  /\ null_deref = FALSE

Init ==
  /\ variant \in Variants
  /\ \E ok \in BOOLEAN : Bootstrap(ok)
  /\ store \in SUBSET ObjectNames
  /\ store0 = store
  /\ InitRequests

\* ------------------------------------------------------ handle_diff_request

Log(w, entries) == calls' = [calls EXCEPT ![w] = @ \o entries]

TryPcs == {"prompt", "prompt_read", "get_json", "dl1", "dl1_read", "dl2", "dl2_read", "model"}
CleanupPcs == {"cleanup1", "cleanup1_del", "cleanup2", "cleanup2_del"}

\* Where the handler goes once the try/except part has returned: agent.py has
\* no finally block; the solutions delete file1_name and then file2_name,
\* each only `if` the name is set.
AfterTry(f1, f2) ==
  IF variant = "agent" THEN "done"
  ELSE IF Truthy(f1) THEN "cleanup1"
  ELSE IF Truthy(f2) THEN "cleanup2"
  ELSE "done"

Goto(w, p) ==
  /\ pc' = [pc EXCEPT ![w] = p]
  /\ UNCHANGED <<determined, response, raised>>

\* The try/except part returns `result`, with the names as assigned so far.
Finish(w, result, f1, f2) ==
  /\ determined' = [determined EXCEPT ![w] = result]
  /\ pc' = [pc EXCEPT ![w] = AfterTry(f1, f2)]
  /\ response' = IF AfterTry(f1, f2) = "done"
                 THEN [response EXCEPT ![w] = result]
                 ELSE response

Return(w, result, f1, f2) ==
  /\ Finish(w, result, f1, f2)
  /\ UNCHANGED raised

\* The handler's except clauses, for an exception raised at position `at`
\* while working on object `name`.
Handle(at, exc, name) ==
  IF at \in {"prompt", "prompt_read"}
  THEN IF exc = "FileNotFoundError" THEN PromptNotFound ELSE PromptNotLoaded
  ELSE IF at \in {"dl1", "dl1_read", "dl2", "dl2_read"} /\ exc = "FileNotFoundError"
  THEN NotFoundBody(name)
  ELSE InternalError

Raise(w, exc, name) ==
  /\ Finish(w, Handle(pc[w], exc, name), file1_name[w], file2_name[w])
  /\ raised' = [raised EXCEPT ![w] = Append(@, [at |-> pc[w], exc |-> exc])]

\* A cleanup whose failure escapes the finally block and replaces the response.
OnCleanupExceptionEscalates(pending) == InternalError

\* The cleanup's `except Exception`: the failure is printed and the handler
\* returns the value the try/except part returned.
OnCleanupException(pending) == pending

\* The finally block ends after its last delete.
EndCleanup(w) ==
  /\ pc' = [pc EXCEPT ![w] = "done"]
  /\ response' = [response EXCEPT ![w] = determined[w]]
  /\ UNCHANGED <<determined, raised>>

\* A delete raises: the finally block's except clause ends the cleanup.
CleanupRaise(w, exc) ==
  /\ pc' = [pc EXCEPT ![w] = "done"]
  /\ response' = [response EXCEPT ![w] = OnCleanupException(determined[w])]
  /\ raised' = [raised EXCEPT ![w] = Append(@, [at |-> pc[w], exc |-> exc])]
  /\ UNCHANGED determined

\* The object a storage step of the request works on.
Target(w) ==
  CASE pc[w] \in {"prompt", "prompt_read"} -> PROMPT_FILE_PATH
    [] pc[w] \in {"dl1", "dl1_read", "cleanup1", "cleanup1_del"} -> file1_name[w]
    [] pc[w] \in {"dl2", "dl2_read", "cleanup2", "cleanup2_del"} -> file2_name[w]
    [] OTHER -> None

\* A POST /diff request arrives at an idle worker.
Receive(w, bodies) ==
  /\ pc[w] = "idle"
  /\ served < MaxRequests
  /\ \E b \in bodies : body' = [body EXCEPT ![w] = b]
  /\ served' = served + 1
  /\ pc' = [pc EXCEPT ![w] = IF variant = "external_prompt" THEN "prompt" ELSE "get_json"]
  /\ UNCHANGED <<variant, storage_client, gemini_model, store, store0, file1_name,
                 file2_name, file1_content, file2_content, determined, response,
                 calls, raised, prompt, modelOut, diff_result_text, health,
                 healthCalls, healthProbe,
                 null_deref>>

\* request.get_json(), data.get('file1'), data.get('file2') and the check of
\* the two names.  Without a JSON object as body, get_json or data.get raises.
Validate(w) ==
  /\ pc[w] = "get_json"
  /\ IF body[w] = NoBody
     THEN /\ Raise(w, "BadRequest", None)
          /\ UNCHANGED <<file1_name, file2_name>>
     ELSE /\ file1_name' = [file1_name EXCEPT ![w] = body[w].file1]
          /\ file2_name' = [file2_name EXCEPT ![w] = body[w].file2]
          /\ IF ~Truthy(body[w].file1) \/ ~Truthy(body[w].file2)
             THEN Return(w, MissingField, body[w].file1, body[w].file2)
             ELSE Goto(w, "dl1")
  /\ UNCHANGED <<process, store, body, file1_content, file2_content, calls, prompt,
                 modelOut, diff_result_text>>

\* download_file_from_gcs up to blob.exists(): the check of the handle,
\* get_bucket, blob.exists, and FileNotFoundError when the object is absent.
DownloadExists(w) ==
  /\ pc[w] \in {"prompt", "dl1", "dl2"}
  /\ IF storage_client = None
     THEN /\ Raise(w, "NotConfigured", Target(w))
          /\ UNCHANGED calls
     ELSE /\ Log(w, <<Call("get_bucket", ""), Call("exists", Target(w))>>)
          /\ IF Target(w) \in store
             THEN Goto(w, CASE pc[w] = "prompt" -> "prompt_read"
                            [] pc[w] = "dl1" -> "dl1_read"
                            [] pc[w] = "dl2" -> "dl2_read")
             ELSE Raise(w, "FileNotFoundError", Target(w))
  /\ UNCHANGED <<process, store, body, file1_name, file2_name, file1_content,
                 file2_content, prompt, modelOut, diff_result_text>>

\* blob.download_as_text(): the content, or the library's NotFound when the
\* object was deleted after blob.exists() answered.
DownloadRead(w) ==
  /\ pc[w] \in {"prompt_read", "dl1_read", "dl2_read"}
  /\ Log(w, <<Call("download", Target(w))>>)
  /\ IF Target(w) \in store
     THEN /\ Goto(w, CASE pc[w] = "prompt_read" -> "get_json"
                       [] pc[w] = "dl1_read" -> "dl2"
                       [] pc[w] = "dl2_read" -> "model")
          /\ file1_content' = IF pc[w] = "dl1_read"
                              THEN [file1_content EXCEPT ![w] = Content(Target(w))]
                              ELSE file1_content
          /\ file2_content' = IF pc[w] = "dl2_read"
                              THEN [file2_content EXCEPT ![w] = Content(Target(w))]
                              ELSE file2_content
     ELSE /\ Raise(w, "NotFound", Target(w))
          /\ UNCHANGED <<file1_content, file2_content>>
  /\ UNCHANGED <<process, store, body, file1_name, file2_name, prompt, modelOut,
                 diff_result_text>>

\* The body of the 200 response for the text get_gemini_diff returned:
\* agent.py returns json.loads of it, the solutions return the text itself.
DiffResult(text) ==
  IF variant = "agent"
  THEN [status |-> 200, key |-> "diff", type |-> "json", value |-> JsonLoads(text)]
  ELSE [status |-> 200, key |-> "diff", type |-> "str", value |-> text]

\* get_gemini_diff and the return of the result.  agent_external_prompt.py
\* calls get_gemini_diff(file1_content, file2_content), which takes three
\* arguments there: a TypeError before the function body runs.
CallModel(w) ==
  /\ pc[w] = "model"
  /\ IF variant = "external_prompt" \/ gemini_model = None
     THEN /\ Raise(w, IF variant = "external_prompt" THEN "TypeError" ELSE "NotConfigured", None)
          /\ UNCHANGED <<calls, prompt, modelOut, diff_result_text>>
     ELSE \E out \in ModelOutcomes :
            /\ Log(w, <<Call("generate_content", "")>>)
            /\ prompt' = [prompt EXCEPT ![w] = Prompt(file1_content[w], file2_content[w])]
            /\ modelOut' = [modelOut EXCEPT ![w] = out]
            /\ diff_result_text' = [diff_result_text EXCEPT ![w] =
                                      IF out = Throws THEN <<>> ELSE CleanResponse(out)]
            /\ IF out = Throws
               THEN Raise(w, "ModelError", None)
               ELSE IF variant = "agent" /\ ~JsonValid(CleanResponse(out))
               THEN Raise(w, "JSONDecodeError", None)
               ELSE Return(w, DiffResult(CleanResponse(out)), file1_name[w], file2_name[w])
  /\ UNCHANGED <<process, store, body, file1_name, file2_name, file1_content, file2_content>>

\* The position after the delete of file1_name or of file2_name.
AfterDelete(w) ==
  IF pc[w] \in {"cleanup1", "cleanup1_del"} /\ Truthy(file2_name[w])
  THEN "cleanup2"
  ELSE "done"

Continue(w) ==
  IF AfterDelete(w) = "done" THEN EndCleanup(w) ELSE Goto(w, AfterDelete(w))

\* delete_file_from_gcs up to blob.exists(): the check of the handle,
\* get_bucket, blob.exists; an absent object is a warning.
DeleteExists(w) ==
  /\ pc[w] \in {"cleanup1", "cleanup2"}
  /\ IF storage_client = None
     THEN /\ CleanupRaise(w, "NotConfigured")
          /\ UNCHANGED calls
     ELSE /\ Log(w, <<Call("get_bucket", ""), Call("exists", Target(w))>>)
          /\ IF Target(w) \in store
             THEN Goto(w, IF pc[w] = "cleanup1" THEN "cleanup1_del" ELSE "cleanup2_del")
             ELSE Continue(w)
  /\ UNCHANGED <<process, store, body, file1_name, file2_name, file1_content,
                 file2_content, prompt, modelOut, diff_result_text>>

\* A delete that empties the bucket instead of removing the one blob.
BlobDeleteBucket(s, name) == {}

\* The bucket after blob.delete() of an object it holds.
BlobDelete(s, name) == s \ {name}

\* blob.delete(): the object is removed, or the library raises NotFound when
\* it is already gone; the finally block swallows that.
DeleteBlob(w) ==
  /\ pc[w] \in {"cleanup1_del", "cleanup2_del"}
  /\ Log(w, <<Call("delete", Target(w))>>)
  /\ IF Target(w) \in store
     THEN /\ store' = BlobDelete(store, Target(w))
          /\ Continue(w)
     ELSE /\ CleanupRaise(w, "NotFound")
          /\ UNCHANGED store
  /\ UNCHANGED <<process, body, file1_name, file2_name, file1_content,
                 file2_content, prompt, modelOut, diff_result_text>>

\* A call of the blob store fails for a reason other than absence (network,
\* permission): get_bucket, download_as_text or delete raises.
StorageCallFails(w) ==
  /\ storage_client # None
  /\ \/ /\ pc[w] \in {"prompt", "dl1", "dl2"}
        /\ Log(w, <<Call("get_bucket", "")>>)
        /\ Raise(w, "StorageError", Target(w))
     \/ /\ pc[w] \in {"prompt_read", "dl1_read", "dl2_read"}
        /\ Log(w, <<Call("download", Target(w))>>)
        /\ Raise(w, "StorageError", Target(w))
     \/ /\ pc[w] \in {"cleanup1", "cleanup2"}
        /\ Log(w, <<Call("get_bucket", "")>>)
        /\ CleanupRaise(w, "StorageError")
     \/ /\ pc[w] \in {"cleanup1_del", "cleanup2_del"}
        /\ Log(w, <<Call("delete", Target(w))>>)
        /\ CleanupRaise(w, "StorageError")
  /\ UNCHANGED <<process, store, body, file1_name, file2_name, file1_content,
                 file2_content, prompt, modelOut, diff_result_text>>

\* The worker is free again for the next request.
Release(w) ==
  /\ pc[w] = "done"
  /\ served < MaxRequests
  /\ pc' = [pc EXCEPT ![w] = "idle"]
  /\ body' = [body EXCEPT ![w] = NoBody]
  /\ file1_name' = [file1_name EXCEPT ![w] = None]
  /\ file2_name' = [file2_name EXCEPT ![w] = None]
  /\ file1_content' = [file1_content EXCEPT ![w] = NoContent]
  /\ file2_content' = [file2_content EXCEPT ![w] = NoContent]
  /\ determined' = [determined EXCEPT ![w] = NoResp]
  /\ response' = [response EXCEPT ![w] = NoResp]
  /\ calls' = [calls EXCEPT ![w] = <<>>]
  /\ raised' = [raised EXCEPT ![w] = <<>>]
  /\ prompt' = [prompt EXCEPT ![w] = <<>>]
  /\ modelOut' = [modelOut EXCEPT ![w] = <<>>]
  /\ diff_result_text' = [diff_result_text EXCEPT ![w] = <<>>]
  /\ UNCHANGED <<process, store>>

\* ----------------------------------------------------------- health_check

\* A health check that probes the model in every version of the agent.
health_check_probing(v, model, out) ==
  [resp |-> IF model = None \/ out = Throws THEN HealthFailed ELSE HealthOk,
   calls |-> IF model = None THEN <<>> ELSE <<Call("generate_content", "test")>>,
   deref |-> model = None]

\* A probing health check without its try/except: the exception of the
\* probe escapes and the server answers 500.
health_check_uncaught(v, model, out) ==
  IF v = "external_prompt"
  THEN [resp |-> IF model = None \/ out = Throws THEN InternalError ELSE HealthOkGemini,
        calls |-> IF model = None THEN <<>> ELSE <<Call("generate_content", "test")>>,
        deref |-> model = None]
  ELSE [resp |-> HealthOk, calls |-> <<>>, deref |-> FALSE]

\* GET /health.  agent.py and agent_clean_up.py answer ok; the external
\* prompt version calls gemini_model.generate_content("test") inside a
\* try/except, on whatever the handle is.
health_check(v, model, out) ==
  IF v = "external_prompt"
  THEN [resp |-> IF model = None \/ out = Throws THEN HealthFailed ELSE HealthOkGemini,
        calls |-> IF model = None THEN <<>> ELSE <<Call("generate_content", "test")>>,
        deref |-> model = None]
  ELSE [resp |-> HealthOk, calls |-> <<>>, deref |-> FALSE]

HealthCheck ==
  /\ \E out \in {Throws, <<"o", "k">>} :
       LET h == health_check(variant, gemini_model, out)
       IN  /\ health' = h.resp
           /\ healthCalls' = h.calls
           /\ healthProbe' = IF variant # "external_prompt" THEN ""
                             ELSE IF gemini_model = None \/ out = Throws THEN "threw"
                             ELSE "returned"
           /\ null_deref' = (null_deref \/ h.deref)
  /\ UNCHANGED <<variant, storage_client, gemini_model, store, store0, served, pc, body,
                 file1_name, file2_name, file1_content, file2_content, determined,
                 response, calls, raised, prompt, modelOut, diff_result_text>>

\* ------------------------------------------------------------------ Spec

\* One client: requests one after the other, any body, a blob store that may fail.
Next ==
  \/ Receive(1, Bodies)
  \/ Validate(1)
  \/ DownloadExists(1)
  \/ DownloadRead(1)
  \/ CallModel(1)
  \/ DeleteExists(1)
  \/ DeleteBlob(1)
  \/ StorageCallFails(1)
  \/ Release(1)
  \/ HealthCheck

Spec == Init /\ [][Next]_vars

\* Two clients at once: each worker serves one request naming two objects,
\* over a blob store whose calls fail only for absence.
InitConc ==
  /\ variant \in Variants
  /\ Bootstrap(TRUE)
  /\ store \in {ObjectNames, ObjectNames \ {"file3.json"}, ObjectNames \ {PROMPT_FILE_PATH}}
  /\ store0 = store
  /\ InitRequests

NextConc ==
  \E w \in Workers :
    \/ Receive(w, NamedBodies)
    \/ Validate(w)
    \/ DownloadExists(w)
    \/ DownloadRead(w)
    \/ CallModel(w)
    \/ DeleteExists(w)
    \/ DeleteBlob(w)

SpecConc == InitConc /\ [][NextConc]_vars

\* ---------------------------------------------------------------- claims

Done(w) == pc[w] = "done"
Named(w) == body[w] # NoBody /\ Truthy(body[w].file1) /\ Truthy(body[w].file2)
\* How often the request made the call `op` on `name`.
Count(w, op, name) == Cardinality({i \in 1..Len(calls[w]) : calls[w][i] = Call(op, name)})
Made(w, op) == \E i \in 1..Len(calls[w]) : calls[w][i].op = op
RaisedAt(w, ats) == \E i \in 1..Len(raised[w]) : raised[w][i].at \in ats
NoStorageFault(w) == \A i \in 1..Len(raised[w]) : raised[w][i].exc # "StorageError"
DeletedOnceEach(w) ==
  /\ Count(w, "delete", file1_name[w]) = 1
  /\ Count(w, "delete", file2_name[w]) = 1

\* C1: when generate_content throws for a request naming two existing
\* objects, the response is the generic 500 and blob.delete was invoked
\* exactly once on each of the two objects when the request has finished.
C1_CleanupOnModelFailure ==
  \A w \in Workers :
    (Done(w) /\ modelOut[w] = Throws /\ file1_name[w] # file2_name[w] /\ NoStorageFault(w))
      => (response[w] = InternalError /\ DeletedOnceEach(w))

\* C2: when the model returns valid JSON text R for a request naming two
\* existing objects, the response is 200 with the parsed value of R as diff,
\* and each of the two objects was deleted exactly once.
C2_SuccessParsedAndDeleted ==
  \A w \in Workers :
    ( /\ Done(w) /\ modelOut[w] \in Responses /\ JsonValid(modelOut[w])
      /\ file1_name[w] # file2_name[w] /\ NoStorageFault(w) )
      => /\ response[w] = [status |-> 200, key |-> "diff", type |-> "json",
                           value |-> JsonLoads(modelOut[w])]
         /\ DeletedOnceEach(w)

\* C3: a request without file1 or file2 (absent, empty, or no JSON body) is
\* answered 400 and makes no call of the blob store, cleanup included.
C3_MissingFieldNoBlobCalls ==
  \A w \in Workers :
    (Done(w) /\ ~Named(w)) => (response[w].status = 400 /\ calls[w] = <<>>)

\* C4: a request with two names of which at least one object is absent is
\* answered 404 with a body naming an absent object; the model is not called
\* and no delete is attempted.  (Stated for the first request, whose bucket
\* is the initial one.)
C4_NotFoundNoDeletion ==
  \A w \in Workers :
    ( /\ Done(w) /\ Named(w) /\ served = 1
      /\ variant \in {"agent", "clean_up"}
      /\ storage_client # None /\ NoStorageFault(w)
      /\ (file1_name[w] \notin store0 \/ file2_name[w] \notin store0) )
      => /\ response[w].status = 404
         /\ response[w].value = <<"File not found in bucket: ",
                                  IF file1_name[w] \notin store0
                                  THEN file1_name[w] ELSE file2_name[w]>>
         /\ ~Made(w, "generate_content")
         /\ ~Made(w, "delete")

\* C5: the response the caller receives is the one the try/except part of
\* the handler determined; a failure in the cleanup is swallowed.
C5_CleanupKeepsResponse ==
  \A w \in Workers : Done(w) => response[w] = determined[w]

\* A finished request whose cleanup raised after a 200 had been determined.
C5_Witness ==
  \E w \in Workers :
    /\ Done(w)
    /\ RaisedAt(w, CleanupPcs)
    /\ determined[w].status = 200
    /\ Made(w, "delete")

\* C6: in agent.py and agent_clean_up.py the statuses are 200, 400, 404 and
\* 500; a model call that throws, a model response that does not parse as
\* JSON and a download that fails for another reason than absence give the
\* generic 500, and every 500 carries the generic message.
C6_OtherFailuresAreGeneric500 ==
  \A w \in Workers :
    (Done(w) /\ variant \in {"agent", "clean_up"} /\ ~RaisedAt(w, CleanupPcs))
      => /\ response[w].status \in {200, 400, 404, 500}
         /\ response[w].status = 500 => response[w] = InternalError
         /\ modelOut[w] = Throws => response[w] = InternalError
         /\ (modelOut[w] \in Responses /\ ~JsonValid(CleanResponse(modelOut[w])))
              => response[w] = InternalError
         /\ (\E i \in 1..Len(raised[w]) :
               raised[w][i].at \in TryPcs /\ raised[w][i].exc = "StorageError")
              => response[w] = InternalError

\* C7: the handles are unset together; with unset handles every request
\* naming two objects gets the generic 500 from the explicit not-configured
\* error, no method of a handle is called, and no method is called on None.
C7_UnconfiguredFailsFast ==
  /\ storage_client = None <=> gemini_model = None
  /\ storage_client = None =>
       /\ ~null_deref
       /\ \A w \in Workers :
            (Done(w) /\ Named(w))
              => /\ response[w] = InternalError
                 /\ calls[w] = <<>>
                 /\ Len(raised[w]) >= 1 /\ raised[w][1].exc = "NotConfigured"

\* C8: no delete step of a request fails, also when another request deletes
\* the same object in between, and the response is the determined one.
C8_RacingDeleteIsNoOp ==
  \A w \in Workers :
    /\ ~RaisedAt(w, CleanupPcs)
    /\ Done(w) => response[w] = determined[w]

\* The names a request in progress or finished has given.
Names(w) == IF pc[w] = "idle" THEN {} ELSE {body[w].file1, body[w].file2}
Disjoint == \A v, w \in Workers : v # w => Names(v) \cap Names(w) = {}

\* What the request returns when it runs alone on the initial bucket, the
\* model answering as it did.
Solo(w) ==
  LET f1 == body[w].file1
      f2 == body[w].file2
  IN  IF variant = "external_prompt" /\ PROMPT_FILE_PATH \notin store0 THEN PromptNotFound
      ELSE IF f1 \notin store0 THEN NotFoundBody(f1)
      ELSE IF f2 \notin store0 THEN NotFoundBody(f2)
      ELSE IF variant = "external_prompt" THEN InternalError
      ELSE IF modelOut[w] = Throws THEN InternalError
      ELSE IF variant = "agent" /\ ~JsonValid(CleanResponse(modelOut[w])) THEN InternalError
      ELSE DiffResult(CleanResponse(modelOut[w]))

C10_SimpleHealthAlwaysOk ==
  variant \in {"agent", "clean_up"} =>
    /\ health \in {NoResp, HealthOk}
    /\ healthCalls = <<>>
    /\ ~null_deref

\* /health answered ok with unset clients, after a /diff request failed.
C10_Witness ==
  /\ variant \in {"agent", "clean_up"}
  /\ health = HealthOk
  /\ gemini_model = None
  /\ \E w \in Workers : Done(w) /\ response[w].status = 500

\* C11: in agent_external_prompt.py GET /health makes one generate_content
\* call on the model (none reaches it when the handle is unset: the call
\* expression itself throws); the answer is 503 error / gemini failed exactly
\* when the probe threw and 200 ok otherwise, never an escaped exception.
C11_ProbingHealth ==
  (variant = "external_prompt" /\ health # NoResp) =>
    /\ health \in {HealthFailed, HealthOkGemini}
    /\ health = HealthFailed <=> healthProbe = "threw"
    /\ health = HealthOkGemini <=> healthProbe = "returned"
    /\ gemini_model = None => (healthProbe = "threw" /\ healthCalls = <<>>)
    /\ gemini_model # None => healthCalls = <<Call("generate_content", "test")>>

\* /health answered 503 because the model handle is unset, a /diff request
\* being served.
C11_Witness ==
  /\ variant = "external_prompt"
  /\ gemini_model = None
  /\ health = HealthFailed
  /\ healthProbe = "threw"
  /\ \E w \in Workers : pc[w] \notin {"idle", "done"}

\* The closing marker of a code fence, and a text wrapped in a json fence.
Closing == <<Tick, Tick, Tick>>
EndsWith(t, p) == Len(t) >= Len(p) /\ SubSeq(t, Len(t) - Len(p) + 1, Len(t)) = p
Fenced(t) == StartsWith(t, Fence) /\ Len(t) >= Len(Fence) + Len(Closing) /\ EndsWith(t, Closing)
\* p occurs in t, character for character
Contains(t, p) == \E i \in 0..(Len(t) - Len(p)) : SubSeq(t, i + 1, i + Len(p)) = p
\* The JSON payload of a stripped response: what stands between the markers
\* of a fence, after the opening marker of an unclosed fence, the text itself
\* without a fence.
Payload(s) ==
  IF Fenced(s) THEN Strip(SubSeq(s, Len(Fence) + 1, Len(s) - Len(Closing)))
  ELSE IF StartsWith(s, Fence) THEN Strip(SubSeq(s, Len(Fence) + 1, Len(s)))
  ELSE s

\* C12: for a response text T of the model in agent.py, the text handed to
\* json.loads is T stripped when T has no json fence; it is the text between
\* the markers when stripped T is wrapped in a json fence, and the diff
\* returned is its parse; and when stripped T opens a json fence that is not
\* closed, every character of the payload is still in the text handed over.
C12_FenceStrippedPayloadKept ==
  \A w \in Workers :
    (variant = "agent" /\ modelOut[w] \in Responses) =>
      LET s == Strip(modelOut[w])
      IN  /\ ~StartsWith(s, Fence) => diff_result_text[w] = s
          /\ Fenced(s) =>
               /\ diff_result_text[w] = Payload(s)
               /\ (Done(w) /\ JsonValid(Payload(s))) =>
                    response[w] = [status |-> 200, key |-> "diff", type |-> "json",
                                   value |-> JsonLoads(Payload(s))]
          /\ (StartsWith(s, Fence) /\ ~Fenced(s)) => Contains(diff_result_text[w], Payload(s))

\* The handler called delete_file_from_gcs for file1_name, for file2_name: the
\* finally block was entered with the name set and, for file2_name, nothing
\* was raised while file1_name was being deleted.
DeleteAttempted1(w) == variant # "agent" /\ Truthy(file1_name[w])
DeleteAttempted2(w) ==
  /\ variant # "agent"
  /\ Truthy(file2_name[w])
  /\ ~RaisedAt(w, {"cleanup1", "cleanup1_del"})
\* Both objects of the request were downloaded.
Downloaded(w) == file1_content[w] # NoContent /\ file2_content[w] # NoContent

\* C13: in the versions with a finally block, a request that named two
\* objects, both in the bucket, and downloaded them ends with a deletion
\* attempt on both objects, whatever the model did and also when the
\* deletion of file1 failed.
C13_BothDeletionsAttempted ==
  \A w \in Workers :
    ( /\ Done(w) /\ Named(w) /\ served = 1
      /\ variant \in {"clean_up", "external_prompt"}
      /\ storage_client # None
      /\ file1_name[w] # file2_name[w]
      /\ {file1_name[w], file2_name[w]} \subseteq store0
      /\ Downloaded(w) )
    => (DeleteAttempted1(w) /\ DeleteAttempted2(w))

\* The calls of the request with operation op are all made before position i.
AllBefore(w, ops, i) == \A j \in 1..Len(calls[w]) : calls[w][j].op \in ops => j < i
\* How many times the request is to read object n: once for each field that
\* names it, and once as the prompt template in agent_external_prompt.py.
Reads(w, n) ==
  (IF file1_name[w] = n THEN 1 ELSE 0) + (IF file2_name[w] = n THEN 1 ELSE 0)
  + (IF variant = "external_prompt" /\ n = PROMPT_FILE_PATH THEN 1 ELSE 0)

\* The order of the calls of a request: generate_content is called at most
\* once, only after both downloads succeeded and with a prompt that contains
\* both contents as downloaded; a delete is made only after every download and
\* the model call, the response of the try/except part being determined.
ModelOnceThenDeletes(w) ==
  /\ Count(w, "generate_content", "") <= 1
  /\ \A i \in 1..Len(calls[w]) :
       /\ calls[w][i].op = "generate_content" =>
            /\ Downloaded(w)
            /\ file1_content[w] = Content(file1_name[w])
            /\ file2_content[w] = Content(file2_name[w])
            /\ Count(w, "download", file1_name[w]) = Reads(w, file1_name[w])
            /\ Count(w, "download", file2_name[w]) = Reads(w, file2_name[w])
            /\ AllBefore(w, {"download"}, i)
            /\ Contains(prompt[w], file1_content[w])
            /\ Contains(prompt[w], file2_content[w])
       /\ calls[w][i].op = "delete" =>
            /\ determined[w] # NoResp
            /\ modelOut[w] # <<>> \/ ~Made(w, "generate_content")
            /\ AllBefore(w, {"download", "generate_content"}, i)

\* C14: within one request of agent.py every object is downloaded at most
\* once, generate_content is called at most once, only after both downloads
\* succeeded and with both contents in the prompt, and nothing is deleted
\* before the model call ended and the response was determined.
C14_EachObjectDownloadedOnce ==
  \A w \in Workers :
    variant = "agent" =>
      /\ \A n \in ObjectNames : Count(w, "download", n) <= 1
      /\ ModelOnceThenDeletes(w)

\* C14 as amended: within one request an object is downloaded at most once
\* for each field that names it (and once more as the prompt template in
\* agent_external_prompt.py); the model call and the deletes are as stated.
C14_CallsOnceAndInOrder ==
  \A w \in Workers :
    /\ \A n \in ObjectNames : Count(w, "download", n) <= Reads(w, n)
    /\ ModelOnceThenDeletes(w)

\* A request answered 200 after two downloads, one model call and two deletes.
C14_Witness ==
  \E w \in Workers :
    /\ Done(w)
    /\ response[w].status = 200
    /\ file1_name[w] # file2_name[w]
    /\ Count(w, "download", file1_name[w]) = 1
    /\ Count(w, "download", file2_name[w]) = 1
    /\ Count(w, "generate_content", "") = 1
    /\ Count(w, "delete", file1_name[w]) = 1
    /\ Count(w, "delete", file2_name[w]) = 1

\* C15: in agent_external_prompt.py a request that names two objects of the
\* bucket, the prompt template being there too and the clients set up, calls
\* the model with the template filled with the two contents and, the model
\* returning text, is answered 200 with that text; the template is downloaded
\* and is deleted only when the request names it; a template that is absent
\* or cannot be read gives 500 with a configuration error and no deletion.
C15_ExternalPromptServesDiff ==
  \A w \in Workers :
    /\ ( /\ variant = "external_prompt"
         /\ Done(w) /\ Named(w) /\ served = 1
         /\ storage_client # None /\ gemini_model # None /\ NoStorageFault(w)
         /\ {PROMPT_FILE_PATH, file1_name[w], file2_name[w]} \subseteq store0
         /\ file1_name[w] # file2_name[w]
         /\ PROMPT_FILE_PATH \notin {file1_name[w], file2_name[w]} )
       => /\ Count(w, "download", PROMPT_FILE_PATH) >= 1
          /\ Made(w, "generate_content")
          /\ Contains(prompt[w], file1_content[w]) /\ Contains(prompt[w], file2_content[w])
          /\ modelOut[w] \in Responses =>
               determined[w] = [status |-> 200, key |-> "diff", type |-> "str",
                                value |-> diff_result_text[w]]
    /\ (variant = "external_prompt" /\ PROMPT_FILE_PATH \notin {file1_name[w], file2_name[w]})
         => ~(\E i \in 1..Len(calls[w]) : calls[w][i] = Call("delete", PROMPT_FILE_PATH))
    /\ (variant = "external_prompt" /\ Done(w) /\ RaisedAt(w, {"prompt", "prompt_read"}))
         => /\ response[w] \in {PromptNotFound, PromptNotLoaded}
            /\ (served = 1 /\ storage_client # None /\ NoStorageFault(w)
                /\ PROMPT_FILE_PATH \notin store0) => response[w] = PromptNotFound
            /\ ~Made(w, "delete")
            /\ ~Made(w, "generate_content")

====
